---------------------------- MODULE Spec2Model ----------------------------
(***************************************************************************)
(* A model of the tracker application (Django): the Document Registry and  *)
(* the Event Store (tracker/models.py), the ingestion pipeline             *)
(* (tracker/utils/logging.py, tracker/utils/fingerprint.py), the decoy     *)
(* endpoints (tracker/views/health.py, config.py, telemetry.py, assets.py, *)
(* fonts.py), document registration and the beacon (tracker/views/api.py) *)
(* the dashboard's overview, endpoint rollup and event page                *)
(* (tracker/views/dashboard.py) and the deletion of Documents in the admin *)
(* site (tracker/admin.py).                                                *)
(*                                                                         *)
(* Every request is handled by a task of its own.  A handler is cut into   *)
(* steps at its database operations: one step is one query or one write,   *)
(* together with the local computation around it.  The database is taken   *)
(* to be available and to apply each statement at once (autocommit).       *)
(***************************************************************************)
EXTENDS Integers, Sequences, FiniteSets, TLC

(***************************************************************************)
(* Bounds of the model.                                                    *)
(***************************************************************************)
\* Requests started in one behaviour.
MaxRequests == 3
\* Items of one registration batch.
MaxBatch == 2
\* Tokens of one User-Agent header.
MaxUALen == 3
\* Rows of the AccessLog table a dashboard run starts from.
MaxSeed == 12

\* The concurrent request tasks.
Procs == {"t1", "t2"}

\* Python's None, Django's NULL, an absent query parameter or JSON key.
None == "<none>"

\* The document identifiers requests carry.
CIDS == {"a", "b"}

(***************************************************************************)
(* tracker/utils/fingerprint.py                                            *)
(*                                                                         *)
(* A User-Agent is a sequence of tokens, the parts a real header separates *)
(* by ';', '(' or ')'.  No pattern of parse_user_agent matches across two  *)
(* tokens, so re.search over the string is the leftmost token that         *)
(* matches, and `X in ua_string` is some token containing X.               *)
(***************************************************************************)
Tokens ==
  { "Mozilla/5.0", "Microsoft Office Outlook 16", "Microsoft Office Word 2014",
    "Word/16.0", "Word", "Excel/15.0", "Excel",
    "Windows NT 10.0", "Windows NT 6.3", "Windows NT 6.1",
    "Mac OS X 10_15_7", "Intel Mac OS X", "Linux x86_64", "Android 13",
    "iPhone", "iPad", "CPU OS 16_5",
    "Chrome/120.0", "Edg/120.0", "Firefox/121.0", "Safari/605.1",
    "Version/17.1", "Mobile" }

\* re.search(r'Microsoft Office\s+([\w\s]+)', tok, re.I): the text captured, or None.
OfficeGroup(tok) ==
  CASE tok = "Microsoft Office Outlook 16" -> "Outlook 16"
    [] tok = "Microsoft Office Word 2014" -> "Word 2014"
    [] OTHER -> None

\* f"Microsoft Office {office_match.group(1)}"
OfficeApp(tok) ==
  CASE tok = "Microsoft Office Outlook 16" -> "Microsoft Office Outlook 16"
    [] tok = "Microsoft Office Word 2014" -> "Microsoft Office Word 2014"
    [] OTHER -> None

\* re.search(r'Word[/\s]*([\d.]+)?', tok, re.I): whether it matches.
WordMatches(tok) == tok \in {"Word/16.0", "Word", "Microsoft Office Word 2014"}

\* group(1) of that match: the version, or None.
WordGroup(tok) ==
  CASE tok = "Word/16.0" -> "16.0"
    [] tok = "Microsoft Office Word 2014" -> "2014"
    [] OTHER -> None

\* re.search(r'Excel[/\s]*([\d.]+)?', tok, re.I)
ExcelMatches(tok) == tok \in {"Excel/15.0", "Excel"}

ExcelGroup(tok) ==
  CASE tok = "Excel/15.0" -> "15.0"
    [] OTHER -> None

\* `marker in tok` for the substrings parse_user_agent looks for.
Contains(tok, marker) ==
  CASE marker = "Windows NT 10" -> tok = "Windows NT 10.0"
    [] marker = "Windows NT 6.3" -> tok = "Windows NT 6.3"
    [] marker = "Windows NT 6.1" -> tok = "Windows NT 6.1"
    [] marker = "Mac OS X" -> tok \in {"Mac OS X 10_15_7", "Intel Mac OS X"}
    [] marker = "Linux" -> tok = "Linux x86_64"
    [] marker = "Android" -> tok = "Android 13"
    [] marker = "iPhone" -> tok = "iPhone"
    [] marker = "iPad" -> tok = "iPad"
    [] marker = "Chrome" -> tok = "Chrome/120.0"
    [] marker = "Edg" -> tok = "Edg/120.0"
    [] marker = "Firefox" -> tok = "Firefox/121.0"
    [] marker = "Safari" -> tok = "Safari/605.1"
    [] marker = "Mobile" -> tok = "Mobile"
    [] OTHER -> FALSE

\* The text a version pattern captures in a token, with the replace('_', '.')
\* the code applies to it done; None when the pattern does not match.
VersionGroup(pattern, tok) ==
  CASE pattern = "Mac OS X ([\\d_]+)" /\ tok = "Mac OS X 10_15_7" -> "10.15.7"
    [] pattern = "Android ([\\d.]+)" /\ tok = "Android 13" -> "13"
    [] pattern = "OS ([\\d_]+)" /\ tok = "CPU OS 16_5" -> "16.5"
    [] pattern = "Chrome/([\\d.]+)" /\ tok = "Chrome/120.0" -> "120.0"
    [] pattern = "Edg/([\\d.]+)" /\ tok = "Edg/120.0" -> "120.0"
    [] pattern = "Firefox/([\\d.]+)" /\ tok = "Firefox/121.0" -> "121.0"
    [] pattern = "Version/([\\d.]+)" /\ tok = "Version/17.1" -> "17.1"
    [] OTHER -> None

\* `marker in ua_string`
In(marker, ua) == \E i \in 1..Len(ua) : Contains(ua[i], marker)

\* The index of the leftmost token satisfying Hit, 0 when there is none.
Leftmost(ua, Hit(_)) ==
  IF \E i \in 1..Len(ua) : Hit(ua[i])
  THEN CHOOSE i \in 1..Len(ua) : Hit(ua[i]) /\ \A j \in 1..(i - 1) : ~Hit(ua[j])
  ELSE 0

\* re.search(pattern, ua_string).group(1), '' when there is no match.
Search(pattern, ua) ==
  LET Hit(tok) == VersionGroup(pattern, tok) # None
      i == Leftmost(ua, Hit)
  IN IF i = 0 THEN "" ELSE VersionGroup(pattern, ua[i])

EmptyFingerprint ==
  [os_name |-> "", os_version |-> "", browser_name |-> "",
   browser_version |-> "", client_app |-> "", client_build |-> ""]

\* The client application rules: three independent `if`s, each overwriting
\* what the one before it set.
DetectClientApp(ua, result) ==
  LET HitO(tok) == OfficeGroup(tok) # None
      o == Leftmost(ua, HitO)
      w == Leftmost(ua, WordMatches)
      x == Leftmost(ua, ExcelMatches)
      r1 == IF o # 0 THEN [result EXCEPT !.client_app = OfficeApp(ua[o])] ELSE result
      r2 == IF w # 0
            THEN [r1 EXCEPT !.client_app = "Microsoft Word",
                            !.client_build = IF WordGroup(ua[w]) # None
                                             THEN WordGroup(ua[w]) ELSE @]
            ELSE r1
      r3 == IF x # 0
            THEN [r2 EXCEPT !.client_app = "Microsoft Excel",
                            !.client_build = IF ExcelGroup(ua[x]) # None
                                             THEN ExcelGroup(ua[x]) ELSE @]
            ELSE r2
  IN r3

\* The Android rule tried before the Linux rule.
DetectOS_AndroidFirst(ua, result) ==
  IF In("Windows NT 10", ua)
  THEN [result EXCEPT !.os_name = "Windows", !.os_version = "10/11"]
  ELSE IF In("Windows NT 6.3", ua)
  THEN [result EXCEPT !.os_name = "Windows", !.os_version = "8.1"]
  ELSE IF In("Windows NT 6.1", ua)
  THEN [result EXCEPT !.os_name = "Windows", !.os_version = "7"]
  ELSE IF In("Mac OS X", ua)
  THEN [result EXCEPT !.os_name = "macOS", !.os_version = Search("Mac OS X ([\\d_]+)", ua)]
  ELSE IF In("Android", ua)
  THEN [result EXCEPT !.os_name = "Android", !.os_version = Search("Android ([\\d.]+)", ua)]
  ELSE IF In("Linux", ua)
  THEN [result EXCEPT !.os_name = "Linux"]
  ELSE IF In("iPhone", ua) \/ In("iPad", ua)
  THEN [result EXCEPT !.os_name = "iOS", !.os_version = Search("OS ([\\d_]+)", ua)]
  ELSE result

\* The OS rules: one if/elif chain.
DetectOS(ua, result) ==
  IF In("Windows NT 10", ua)
  THEN [result EXCEPT !.os_name = "Windows", !.os_version = "10/11"]
  ELSE IF In("Windows NT 6.3", ua)
  THEN [result EXCEPT !.os_name = "Windows", !.os_version = "8.1"]
  ELSE IF In("Windows NT 6.1", ua)
  THEN [result EXCEPT !.os_name = "Windows", !.os_version = "7"]
  ELSE IF In("Mac OS X", ua)
  THEN [result EXCEPT !.os_name = "macOS", !.os_version = Search("Mac OS X ([\\d_]+)", ua)]
  ELSE IF In("Linux", ua)
  THEN [result EXCEPT !.os_name = "Linux"]
  ELSE IF In("Android", ua)
  THEN [result EXCEPT !.os_name = "Android", !.os_version = Search("Android ([\\d.]+)", ua)]
  ELSE IF In("iPhone", ua) \/ In("iPad", ua)
  THEN [result EXCEPT !.os_name = "iOS", !.os_version = Search("OS ([\\d_]+)", ua)]
  ELSE result

\* The browser rules without the `if not result['client_app']`.
DetectBrowser_Unguarded(ua, result) ==
  IF In("Chrome", ua) /\ ~In("Edg", ua)
  THEN [result EXCEPT !.browser_name = "Chrome", !.browser_version = Search("Chrome/([\\d.]+)", ua)]
  ELSE IF In("Edg", ua)
  THEN [result EXCEPT !.browser_name = "Edge", !.browser_version = Search("Edg/([\\d.]+)", ua)]
  ELSE IF In("Firefox", ua)
  THEN [result EXCEPT !.browser_name = "Firefox", !.browser_version = Search("Firefox/([\\d.]+)", ua)]
  ELSE IF In("Safari", ua)
  THEN [result EXCEPT !.browser_name = "Safari", !.browser_version = Search("Version/([\\d.]+)", ua)]
  ELSE result

\* The browser rules without the `and 'Edg' not in ua_string`.
DetectBrowser_ChromeFirst(ua, result) ==
  IF result.client_app # "" THEN result
  ELSE IF In("Chrome", ua)
  THEN [result EXCEPT !.browser_name = "Chrome", !.browser_version = Search("Chrome/([\\d.]+)", ua)]
  ELSE IF In("Edg", ua)
  THEN [result EXCEPT !.browser_name = "Edge", !.browser_version = Search("Edg/([\\d.]+)", ua)]
  ELSE IF In("Firefox", ua)
  THEN [result EXCEPT !.browser_name = "Firefox", !.browser_version = Search("Firefox/([\\d.]+)", ua)]
  ELSE IF In("Safari", ua)
  THEN [result EXCEPT !.browser_name = "Safari", !.browser_version = Search("Version/([\\d.]+)", ua)]
  ELSE result

\* The browser rules, tried only when no client application was found.
DetectBrowser(ua, result) ==
  IF result.client_app # "" THEN result
  ELSE IF In("Chrome", ua) /\ ~In("Edg", ua)
  THEN [result EXCEPT !.browser_name = "Chrome", !.browser_version = Search("Chrome/([\\d.]+)", ua)]
  ELSE IF In("Edg", ua)
  THEN [result EXCEPT !.browser_name = "Edge", !.browser_version = Search("Edg/([\\d.]+)", ua)]
  ELSE IF In("Firefox", ua)
  THEN [result EXCEPT !.browser_name = "Firefox", !.browser_version = Search("Firefox/([\\d.]+)", ua)]
  ELSE IF In("Safari", ua)
  THEN [result EXCEPT !.browser_name = "Safari", !.browser_version = Search("Version/([\\d.]+)", ua)]
  ELSE result

parse_user_agent(ua) ==
  IF ua = <<>> THEN EmptyFingerprint
  ELSE DetectBrowser(ua, DetectOS(ua, DetectClientApp(ua, EmptyFingerprint)))

\* The User-Agent headers the modelled requests carry.
UA_Chrome == <<"Mozilla/5.0", "Windows NT 10.0", "Chrome/120.0", "Safari/605.1">>
UA_Word == <<"Mozilla/5.0", "Windows NT 10.0", "Word/16.0">>
UA_WordNoBuild == <<"Mozilla/5.0", "Intel Mac OS X", "Word">>


(***************************************************************************)
(* Requests.  A request names the view that serves it (the URL route of    *)
(* tracker/urls.py), the path part that becomes the endpoint label, the    *)
(* query parameters the views read (None: absent), the User-Agent and the  *)
(* body.                                                                   *)
(***************************************************************************)
HealthViews == {"ping", "ready", "prefetch_init"}
ConfigViews == {"runtime_config", "ui_flags", "doc_settings"}
TelemetryViews == {"metrics", "client_info", "events"}
AssetViews == {"media_asset", "static_asset", "font_file", "theme_file"}
\* The views that call log_access whatever the cid is.
AlwaysLogViews == HealthViews \cup ConfigViews
DecoyViews == AlwaysLogViews \cup TelemetryViews \cup AssetViews

\* The endpoint label a view hands to log_access.  The asset, font and theme
\* views build it from the path; the model requests one file of each.
Endpoint(view) ==
  CASE view = "ping" -> "/health/ping"
    [] view = "ready" -> "/status/ready"
    [] view = "prefetch_init" -> "/prefetch/init"
    [] view = "runtime_config" -> "/config/runtime.json"
    [] view = "ui_flags" -> "/config/ui-flags.json"
    [] view = "doc_settings" -> "/config/doc-settings.json"
    [] view = "metrics" -> "/telemetry/metrics"
    [] view = "client_info" -> "/telemetry/client"
    [] view = "events" -> "/telemetry/events"
    [] view = "media_asset" -> "/assets/media/logo.png"
    [] view = "static_asset" -> "/assets/static/app.js"
    [] view = "font_file" -> "/fonts/inter-regular.woff2"
    [] view = "theme_file" -> "/themes/default.css"
    [] view = "beacon" -> "/api/beacon"
    [] OTHER -> None

\* The body of the response a decoy view returns after logging.
Canned(view) ==
  CASE view = "ping" -> "ok"
    [] view = "ready" -> "ready-json"
    [] view = "prefetch_init" -> "prefetch-json"
    [] view = "runtime_config" -> "CONFIG_RUNTIME"
    [] view = "ui_flags" -> "CONFIG_UI_FLAGS"
    [] view = "doc_settings" -> "CONFIG_DOC_SETTINGS"
    [] view \in TelemetryViews \cup {"beacon"} -> "status-ok-json"
    [] view \in {"media_asset", "static_asset"} -> "TRANSPARENT_PNG"
    [] view = "font_file" -> "MINIMAL_WOFF2"
    [] view = "theme_file" -> "minimal-css"
    [] OTHER -> None

(***************************************************************************)
(* JSON.  A decoded value is an object (a record of the keys the code      *)
(* reads, None for an absent key), an array of values, or a scalar         *)
(* (number, string, boolean, null).  A body is "" (empty), "malformed"     *)
(* (json.loads raises JSONDecodeError) or a decoded value.                 *)
(***************************************************************************)
Scalar == [t |-> "scalar"]
IsObject(v) == v.t = "object"

\* A telemetry body that is a JSON object, with its 'client' and 'build'.
Payload(client, build) == [t |-> "object", client |-> client, build |-> build]

\* A registration item that is a JSON object, with its keys.
RegItem(uuid, name, path) ==
  [t |-> "object", uuid |-> uuid, document_name |-> name, file_path |-> path]

\* A JSON array.
Array(items) == [t |-> "array", items |-> items]

(***************************************************************************)
(* State.                                                                  *)
(***************************************************************************)
VARIABLES
  documents,   \* the Document table: a set of rows [id, cid, name, file_path]
  nextDocId,   \* the id the next Document row gets
  events,      \* the AccessLog table in insertion order; a row's id is its index
  pc,          \* per task: where its handler stands ("idle": no request in hand)
  req,         \* per task: the request it serves, or served last
  loc,         \* per task: the handler's local variables
  resp,        \* per task: the response to the request served last
  started,     \* requests received so far
  completed,   \* per view: requests answered so far
  before       \* per task, for the request in hand: the Document table and the
               \* AccessLog table when it arrived, whether it repeats the request the task answered
               \* with 200 just before, and the answer to that one

vars == <<documents, nextDocId, events, pc, req, loc, resp, started, completed, before>>

Views ==
  DecoyViews \cup {"create_document", "beacon", "api_events_by_endpoint", "event_detail", "index"}

NULL == 0

\* n: the request is the n-th the server received.  remote_addr: the
\* REMOTE_ADDR of the connection ('' behind a unix socket); the modelled
\* requests carry no X-Forwarded-For or X-Real-IP header.  event_id: the
\* path parameter of the dashboard's event page.
NoRequest ==
  [n |-> 0, view |-> None, cid |-> None, c |-> None, resource_id |-> None,
   ua |-> <<>>, body |-> [t |-> "empty"], remote_addr |-> "", event_id |-> NULL]

NoEvent ==
  [id |-> NULL, document |-> NULL, cid |-> "", endpoint |-> "",
   is_first_access |-> FALSE, ip_address |-> None, timestamp |-> 0,
   user_agent |-> <<>>,
   os_name |-> "", os_version |-> "", browser_name |-> "",
   browser_version |-> "", client_app |-> "", client_build |-> "",
   country |-> "", isp |-> ""]

NoDocument == [id |-> NULL, cid |-> "", name |-> "", file_path |-> ""]

NoLocals ==
  [cid |-> "", endpoint |-> "", document |-> NoDocument, is_first_access |-> FALSE,
   access_log |-> NoEvent, name |-> "", file_path |-> "",
   i |-> 0, processed_ids |-> <<>>]

NoDeviceStats == [mobile |-> 0, desktop |-> 0, office |-> 0]

\* groups: events_by_endpoint.
NoResponse ==
  [status |-> 0, body |-> None, ids |-> <<>>, groups |-> <<>>,
   related_by_cid |-> <<>>, related_by_ip |-> <<>>,
   events_by_country |-> <<>>, events_by_client |-> <<>>, top_isps |-> <<>>,
   device_stats |-> NoDeviceStats]

NoBefore == [documents |-> {}, events |-> <<>>, repeat |-> FALSE, resp |-> NoResponse]

Response(status, body) == [NoResponse EXCEPT !.status = status, !.body = body]

Init ==
  /\ documents = {}
  /\ nextDocId = 1
  /\ events = <<>>
  /\ pc = [p \in Procs |-> "idle"]
  /\ req = [p \in Procs |-> NoRequest]
  /\ loc = [p \in Procs |-> NoLocals]
  /\ resp = [p \in Procs |-> NoResponse]
  /\ started = 0
  /\ completed = [v \in Views |-> 0]
  /\ before = [p \in Procs |-> NoBefore]

\* `not x` for a string or None.
Falsy(x) == x = None \/ x = ""

\* QueryDict.get(key, default) for a parameter that is absent (None) or has a value.
Get(param, default) == IF param # None THEN param ELSE default

(***************************************************************************)
(* A task's next position: in the middle of its handler (Step), or done    *)
(* with the response sent (Done).                                          *)
(***************************************************************************)
Step(where, l) == [pc |-> where, loc |-> l, resp |-> NoResponse]
Done(r) == [pc |-> "idle", loc |-> NoLocals, resp |-> r]

Settle(p, view, k) ==
  /\ pc' = [pc EXCEPT ![p] = k.pc]
  /\ loc' = [loc EXCEPT ![p] = k.loc]
  /\ resp' = IF k.pc = "idle" THEN [resp EXCEPT ![p] = k.resp] ELSE resp
  /\ completed' = IF k.pc = "idle" THEN [completed EXCEPT ![view] = @ + 1] ELSE completed

\* A task in the middle of its handler takes a step.
Become(p, view, k) ==
  /\ Settle(p, view, k)
  /\ before' = IF k.pc = "idle"
               THEN [before EXCEPT ![p] = [NoBefore EXCEPT !.repeat = before[p].repeat]]
               ELSE before
  /\ UNCHANGED <<req, started>>

\* A request arrives at an idle task, which takes the handler's first step.
\* In a sequential run one task serves every request, the next after the
\* last is answered.
Receive(p, r, sequential, k) ==
  /\ pc[p] = "idle"
  /\ started < MaxRequests
  /\ sequential => p = "t1"
  /\ started' = started + 1
  /\ req' = [req EXCEPT ![p] = [r EXCEPT !.n = started + 1]]
  /\ Settle(p, r.view, k)
  /\ LET repeat == /\ req[p].view = r.view
                   /\ req[p].body = r.body
                   /\ resp[p].status = 200
     IN before' = [before EXCEPT ![p] =
                     IF k.pc = "idle" THEN [NoBefore EXCEPT !.repeat = repeat]
                     ELSE [documents |-> documents, events |-> events,
                           repeat |-> repeat, resp |-> resp[p]]]

\* An exception no handler catches: Django answers 500.
ServerError == Response(500, "server-error")

(***************************************************************************)
(* tracker/utils/logging.py: log_access up to its first query.             *)
(* extract_request_metadata, extract_query_params, the effective cid.      *)
(***************************************************************************)
\* get_client_ip: without proxy headers, request.META.get('REMOTE_ADDR').
get_client_ip(r) == r.remote_addr

extract_request_metadata(r) ==
  LET ua_data == parse_user_agent(r.ua)
  IN [NoEvent EXCEPT !.ip_address = get_client_ip(r),
                     !.user_agent = r.ua,
                     !.os_name = ua_data.os_name,
                     !.os_version = ua_data.os_version,
                     !.browser_name = ua_data.browser_name,
                     !.browser_version = ua_data.browser_version,
                     !.client_app = ua_data.client_app,
                     !.client_build = ua_data.client_build]

\* if not cid: cid = query_params.get('cid', query_params.get('c', ''))
EffectiveCid(r, cid) == IF Falsy(cid) THEN Get(r.cid, Get(r.c, "")) ELSE cid

\* The `if cid:` left out: the Document resolved for an empty cid too.
log_access_AlwaysResolve(r, endpoint, cid_arg) ==
  LET cid == EffectiveCid(r, cid_arg)
      l == [NoLocals EXCEPT !.cid = cid, !.endpoint = endpoint,
                            !.access_log = extract_request_metadata(r)]
  IN Step("goc_get", l)

log_access(r, endpoint, cid_arg) ==
  LET cid == EffectiveCid(r, cid_arg)
      l == [NoLocals EXCEPT !.cid = cid, !.endpoint = endpoint,
                            !.access_log = extract_request_metadata(r)]
  IN IF ~Falsy(cid) THEN Step("goc_get", l) ELSE Step("la_create", l)

(***************************************************************************)
(* tracker/views/api.py: create_document between its queries.              *)
(***************************************************************************)
\* if isinstance(data, list): items = data, else: items = [data]
Items(data) == IF data.t = "array" THEN data.items ELSE <<data>>

\* The check for an all-skipped request left out.
RegistrationResponse_Unchecked(data, processed_ids) ==
  IF data.t # "array" /\ Len(processed_ids) = 1
  THEN [Response(200, "resource_id") EXCEPT !.ids = processed_ids]
  ELSE [Response(200, "resource_ids") EXCEPT !.ids = processed_ids]

\* What create_document answers once the loop over the items has ended.
RegistrationResponse(data, processed_ids) ==
  IF processed_ids = <<>> /\ Items(data) # <<>>
  THEN Response(400, "uuid is required for at least one item")
  ELSE IF data.t # "array" /\ Len(processed_ids) = 1
  THEN [Response(200, "resource_id") EXCEPT !.ids = processed_ids]
  ELSE [Response(200, "resource_ids") EXCEPT !.ids = processed_ids]

\* `if resource_id is None` for `if not resource_id`.
SkipItem_NoneOnly(item) == item.uuid = None

\* if not resource_id: continue
SkipItem(item) == Falsy(item.uuid)

\* The loop from item i on, up to the next update_or_create: an item without
\* uuid is skipped, an item that is no object makes item.get raise, which
\* the handler's `except Exception` answers with 500.
RECURSIVE NextItem(_, _, _)
NextItem(data, i, processed_ids) ==
  LET items == Items(data)
  IN IF i > Len(items) THEN Done(RegistrationResponse(data, processed_ids))
     ELSE IF ~IsObject(items[i]) THEN Done(Response(500, "str(e)"))
     ELSE IF SkipItem(items[i]) THEN NextItem(data, i + 1, processed_ids)
     ELSE Step("goc_get",
               [NoLocals EXCEPT !.cid = items[i].uuid,
                                !.name = Get(items[i].document_name, ""),
                                !.file_path = Get(items[i].file_path, ""),
                                !.i = i,
                                !.processed_ids = processed_ids])

(***************************************************************************)
(* tracker/models.py: the Document table and get_or_create.                *)
(***************************************************************************)
\* Document.objects.filter(cid=cid)
DocumentsByCid(cid) == {d \in documents : d.cid = cid}

\* The column declared without unique=True.
UniqueViolation_Never(cid) == FALSE

\* cid = models.CharField(..., unique=True): an INSERT of a cid the table
\* holds raises IntegrityError.
UniqueViolation(cid) == DocumentsByCid(cid) # {}

\* Where a task goes on with the row get_or_create returned: log_access looks
\* for earlier events; update_or_create returns a row it created and saves
\* the defaults into a row it found.
GotDocument(p, doc, created) ==
  IF req[p].view = "create_document"
  THEN IF created
       THEN NextItem(req[p].body, loc[p].i + 1, Append(loc[p].processed_ids, doc.cid))
       ELSE Step("uoc_save", [loc[p] EXCEPT !.document = doc])
  ELSE Step("la_exists", [loc[p] EXCEPT !.document = doc])

\* An exception raised inside a view: create_document catches it, a decoy
\* view does not.
Raised(p) ==
  IF req[p].view = "create_document" THEN Done(Response(500, "str(e)")) ELSE Done(ServerError)

\* get_or_create, first query: self.get(cid=cid).
goc_get(p) ==
  /\ pc[p] = "goc_get"
  /\ LET rows == DocumentsByCid(loc[p].cid)
     IN Become(p, req[p].view,
               IF rows = {} THEN Step("goc_create", loc[p])
               ELSE IF Cardinality(rows) > 1 THEN Raised(p)
               ELSE GotDocument(p, CHOOSE d \in rows : TRUE, FALSE))
  /\ UNCHANGED <<documents, nextDocId, events>>

\* get_or_create, the INSERT after DoesNotExist.
goc_create(p) ==
  /\ pc[p] = "goc_create"
  /\ LET doc == [id |-> nextDocId, cid |-> loc[p].cid,
                 name |-> loc[p].name, file_path |-> loc[p].file_path]
     IN IF UniqueViolation(loc[p].cid)
        THEN /\ Become(p, req[p].view, Step("goc_reget", loc[p]))
             /\ UNCHANGED <<documents, nextDocId>>
        ELSE /\ documents' = documents \cup {doc}
             /\ nextDocId' = nextDocId + 1
             /\ Become(p, req[p].view, GotDocument(p, doc, TRUE))
  /\ UNCHANGED events

\* get_or_create, the second self.get(cid=cid) after IntegrityError.
goc_reget(p) ==
  /\ pc[p] = "goc_reget"
  /\ LET rows == DocumentsByCid(loc[p].cid)
     IN Become(p, req[p].view,
               IF Cardinality(rows) # 1 THEN Raised(p)
               ELSE GotDocument(p, CHOOSE d \in rows : TRUE, FALSE))
  /\ UNCHANGED <<documents, nextDocId, events>>

\* The two defaults taken for one another.
WithDefaults_Swapped(obj, name, file_path) == [obj EXCEPT !.name = file_path, !.file_path = name]

\* for k, v in defaults.items(): setattr(obj, k, v)
WithDefaults(obj, name, file_path) == [obj EXCEPT !.name = name, !.file_path = file_path]

\* update_or_create on a row that existed: set the defaults and save.
uoc_save(p) ==
  /\ pc[p] = "uoc_save"
  /\ LET obj == WithDefaults(loc[p].document, loc[p].name, loc[p].file_path)
     IN /\ documents' = {d \in documents : d.id # obj.id} \cup {obj}
        /\ Become(p, req[p].view,
                  NextItem(req[p].body, loc[p].i + 1, Append(loc[p].processed_ids, obj.cid)))
  /\ UNCHANGED <<nextDocId, events>>

(***************************************************************************)
(* tracker/admin.py: the Document admin, whose delete view removes a       *)
(* Document and, by on_delete=CASCADE, the events that reference it.       *)
(***************************************************************************)
\* update_or_create holds the row it found (select_for_update, inside
\* transaction.atomic) until it has saved it.
Locked(doc) == \E p \in Procs : pc[p] = "uoc_save" /\ loc[p].document.id = doc.id

\* What is left of a deleted event: its id, which the table gives to no
\* later row.
Deleted(i) == [NoEvent EXCEPT !.id = i]

\* on_delete=models.CASCADE
Cascade(doc) ==
  [i \in 1..Len(events) |-> IF events[i].document = doc.id THEN Deleted(i) ELSE events[i]]

\* The administrator deletes a Document, in one transaction.
admin_delete ==
  /\ \E doc \in documents :
       /\ ~Locked(doc)
       /\ documents' = documents \ {doc}
       /\ events' = Cascade(doc)
  /\ UNCHANGED <<nextDocId, pc, req, loc, resp, started, completed, before>>

(***************************************************************************)
(* tracker/utils/logging.py: log_access from its first-access query on,    *)
(* and log_telemetry.                                                      *)
(***************************************************************************)
\* document.access_logs.exists()
HasAccessLogs(doc) == \E i \in 1..Len(events) : events[i].document = doc.id

\* The `not` forgotten.
IsFirstAccess_Inverted(doc) == HasAccessLogs(doc)

\* is_first_access = not document.access_logs.exists()
IsFirstAccess(doc) == ~HasAccessLogs(doc)

la_exists(p) ==
  /\ pc[p] = "la_exists"
  /\ Become(p, req[p].view,
            Step("la_create",
                 [loc[p] EXCEPT !.is_first_access = IsFirstAccess(loc[p].document)]))
  /\ UNCHANGED <<documents, nextDocId, events>>

\* json.loads(request.body) if request.body else {}; {} on JSONDecodeError.
TelemetryPayload(body) ==
  IF body.t \in {"empty", "malformed"} THEN Payload(None, None) ELSE body

\* AccessLog.objects.create(...).  log_access returns the row to its caller:
\* a telemetry view goes on in log_telemetry, any other view answers.
\* What a write of the instance leaves in its row: GenericIPAddressField
\* stores '' as NULL.
Stored(access_log) == [access_log EXCEPT !.ip_address = IF @ = "" THEN None ELSE @]

\* timestamp = models.DateTimeField(default=timezone.now): the clock of the
\* model ticks once per stored event.
Now == Len(events) + 1

\* document = models.ForeignKey(Document, ...): an INSERT that references a
\* Document the table no longer holds raises IntegrityError.
ForeignKeyViolation(doc) == doc.id # NULL /\ \A d \in documents : d.id # doc.id

la_create(p) ==
  /\ pc[p] = "la_create"
  /\ LET access_log == [loc[p].access_log EXCEPT
                          !.id = Len(events) + 1,
                          !.timestamp = Now,
                          !.document = loc[p].document.id,
                          !.cid = loc[p].cid,
                          !.endpoint = loc[p].endpoint,
                          !.is_first_access = loc[p].is_first_access]
     IN IF ForeignKeyViolation(loc[p].document)
        THEN /\ Become(p, req[p].view, Raised(p))
             /\ UNCHANGED events
        ELSE /\ events' = Append(events, Stored(access_log))
             /\ Become(p, req[p].view,
                       IF req[p].view \in TelemetryViews
                       THEN Step("lt_save", [loc[p] EXCEPT !.access_log = access_log])
                       ELSE Done(Response(200, Canned(req[p].view))))
  /\ UNCHANGED <<documents, nextDocId>>

\* The `and not access_log.client_app` / `and not access_log.client_build` left out.
LateMerge_Overwrite(access_log, payload) ==
  [access_log EXCEPT
     !.client_app = IF ~Falsy(payload.client) THEN payload.client ELSE @,
     !.client_build = IF ~Falsy(payload.build) THEN payload.build ELSE @]

\* if client_app and not access_log.client_app: access_log.client_app = client_app
\* if client_build and not access_log.client_build: access_log.client_build = client_build
LateMerge(access_log, payload) ==
  [access_log EXCEPT
     !.client_app = IF ~Falsy(payload.client) /\ @ = "" THEN payload.client ELSE @,
     !.client_build = IF ~Falsy(payload.build) /\ @ = "" THEN payload.build ELSE @]

\* The update made by cid, as filter(cid=...).update(...) would.
SavedRows_ByCid(access_log) == {i \in 1..Len(events) : events[i].cid = access_log.cid}

\* The rows access_log.save() writes: the one with the instance's id.
SavedRows(access_log) == {access_log.id}

\* log_telemetry after log_access: the merge and access_log.save().
lt_save(p) ==
  /\ pc[p] = "lt_save"
  /\ LET access_log == LateMerge(loc[p].access_log, TelemetryPayload(req[p].body))
     IN events' = [i \in 1..Len(events) |->
                     IF i \in SavedRows(access_log) THEN Stored([access_log EXCEPT !.id = i])
                     ELSE events[i]]
  /\ Become(p, req[p].view, Done(Response(200, Canned(req[p].view))))
  /\ UNCHANGED <<documents, nextDocId>>

(***************************************************************************)
(* The views.  Each takes the requests it may receive from a set U.        *)
(***************************************************************************)
Request(view, cid, c, resource_id, ua, body) ==
  [n |-> 0, view |-> view, cid |-> cid, c |-> c, resource_id |-> resource_id,
   ua |-> ua, body |-> body, remote_addr |-> "10.0.0.42", event_id |-> NULL]

\* tracker/views/health.py: ping, ready, prefetch_init.
health(p, U, sequential) ==
  \E r \in {x \in U : x.view \in HealthViews} :
    /\ Receive(p, r, sequential, log_access(r, Endpoint(r.view), Get(r.cid, Get(r.c, None))))
    /\ UNCHANGED <<documents, nextDocId, events>>

\* tracker/views/config.py: runtime_config, ui_flags, doc_settings.
config(p, U, sequential) ==
  \E r \in {x \in U : x.view \in ConfigViews} :
    /\ Receive(p, r, sequential, log_access(r, Endpoint(r.view), Get(r.cid, Get(r.c, None))))
    /\ UNCHANGED <<documents, nextDocId, events>>

\* tracker/views/telemetry.py: metrics, client_info, events.  A body that is
\* JSON but no object makes payload.get raise in log_telemetry, before
\* log_access is called.
telemetry(p, U, sequential) ==
  \E r \in {x \in U : x.view \in TelemetryViews} :
    /\ Receive(p, r, sequential,
               IF IsObject(TelemetryPayload(r.body))
               THEN log_access(r, Endpoint(r.view), None)
               ELSE Done(ServerError))
    /\ UNCHANGED <<documents, nextDocId, events>>

\* The existence query answering yes whatever the table holds.
DocumentExists_Always(cid) == TRUE

\* Document.objects.filter(cid=resource_id).exists()
DocumentExists(cid) == DocumentsByCid(cid) # {}

\* tracker/views/assets.py, tracker/views/fonts.py: media_asset,
\* static_asset, font_file, theme_file up to the existence query.  (The
\* first query of media_asset and font_file, whose result is not used, is
\* left out.)
asset(p, U, sequential) ==
  \E r \in {x \in U : x.view \in AssetViews} :
    /\ Receive(p, r, sequential,
               IF Falsy(r.resource_id) THEN Done(Response(200, Canned(r.view)))
               ELSE Step("gate", NoLocals))
    /\ UNCHANGED <<documents, nextDocId, events>>

\* if resource_id and Document.objects.filter(cid=resource_id).exists(): log_access(...)
gate(p) ==
  /\ pc[p] = "gate"
  /\ Become(p, req[p].view,
            IF DocumentExists(req[p].resource_id)
            THEN log_access(req[p], Endpoint(req[p].view), req[p].resource_id)
            ELSE Done(Response(200, Canned(req[p].view))))
  /\ UNCHANGED <<documents, nextDocId, events>>

\* tracker/views/api.py: create_document up to its first query.
create_document(p, U, sequential) ==
  \E r \in {x \in U : x.view = "create_document"} :
    /\ Receive(p, r, sequential,
               IF r.body.t = "malformed" THEN Done(Response(400, "Invalid JSON"))
               ELSE NextItem(r.body, 1, <<>>))
    /\ UNCHANGED <<documents, nextDocId, events>>

\* The parameters of log_access, and the keywords beacon calls it with.
LogAccessParams == {"request", "endpoint", "cid", "request_body"}
BeaconKeywords == {"request", "endpoint", "cid", "timestamp"}

\* tracker/views/api.py: beacon up to its existence query.
beacon(p, U, sequential) ==
  \E r \in {x \in U : x.view = "beacon"} :
    /\ Receive(p, r, sequential,
               IF Falsy(r.resource_id) THEN Done(Response(400, "resource_id is required"))
               ELSE Step("beacon_exists", NoLocals))
    /\ UNCHANGED <<documents, nextDocId, events>>

\* if not Document.objects.filter(cid=resource_id).exists(): 404; then the
\* call of log_access inside the try.  A keyword log_access does not have
\* raises TypeError at the call, which `except Exception` turns into a 500.
beacon_exists(p) ==
  /\ pc[p] = "beacon_exists"
  /\ Become(p, req[p].view,
            IF ~DocumentExists(req[p].resource_id)
            THEN Done(Response(404, "Document not found"))
            ELSE IF BeaconKeywords \subseteq LogAccessParams
            THEN log_access(req[p], Endpoint(req[p].view), req[p].resource_id)
            ELSE Done(Response(500, "str(e)")))
  /\ UNCHANGED <<documents, nextDocId, events>>

(***************************************************************************)
(* tracker/views/dashboard.py: api_events_by_endpoint.                     *)
(***************************************************************************)
\* The [:10] of the rollup queries.
TopLimit == 10

Min(a, b) == IF a < b THEN a ELSE b

\* AccessLog.objects.values('endpoint').annotate(count=Count('id'))
EndpointGroups(evs) ==
  { [endpoint |-> e, count |-> Cardinality({i \in 1..Len(evs) : evs[i].endpoint = e})] :
      e \in {evs[i].endpoint : i \in 1..Len(evs)} }

\* .order_by('count')[:n], the sign of the ordering lost.
RECURSIVE OrderedTop_Ascending(_, _)
OrderedTop_Ascending(groups, n) ==
  IF n = 0 \/ groups = {} THEN {<<>>}
  ELSE UNION { { <<g>> \o s : s \in OrderedTop_Ascending(groups \ {g}, n - 1) } :
                 g \in {x \in groups : \A y \in groups : x.count <= y.count} }

\* .order_by('-count')[:n]: the orders the database may return, the order of
\* groups with equal counts being its choice.
RECURSIVE OrderedTop(_, _)
OrderedTop(groups, n) ==
  IF n = 0 \/ groups = {} THEN {<<>>}
  ELSE UNION { { <<g>> \o s : s \in OrderedTop(groups \ {g}, n - 1) } :
                 g \in {x \in groups : \A y \in groups : x.count >= y.count} }

api_events_by_endpoint(p, U, sequential) ==
  \E r \in {x \in U : x.view = "api_events_by_endpoint"},
     data \in OrderedTop(EndpointGroups(events), TopLimit) :
    /\ Receive(p, r, sequential,
               Done([Response(200, "labels-values") EXCEPT !.groups = data]))
    /\ UNCHANGED <<documents, nextDocId, events>>

(***************************************************************************)
(* tracker/views/dashboard.py: event_detail.  Its three reads are taken    *)
(* together: the runs with this view serve one request after the other.    *)
(***************************************************************************)
\* The [:10] of the related-events queries.
RelatedLimit == 10

\* .order_by('-timestamp') over the rows ids of evs: the orders the database
\* may return, rows of equal timestamp being in the order of its choice.
RECURSIVE ByTimestampDesc(_, _)
ByTimestampDesc(evs, ids) ==
  IF ids = {} THEN {<<>>}
  ELSE UNION { { <<i>> \o s : s \in ByTimestampDesc(evs, ids \ {i}) } :
                 i \in {j \in ids : \A k \in ids : evs[j].timestamp >= evs[k].timestamp} }

\* The filter on the event's own id left out.
Others_WithSelf(ids, id) == ids

\* .exclude(id=event.id)
Others(ids, id) == ids \ {id}

\* s[:n]
Slice(s, n) == SubSeq(s, 1, Min(n, Len(s)))

\* AccessLog.objects.filter(...).exclude(id=event.id).order_by('-timestamp')[:10],
\* as the ids of the rows, for the rows ids the filter selects.
Related(evs, ids, id) ==
  { Slice(s, RelatedLimit) : s \in ByTimestampDesc(evs, Others(ids, id)) }

event_detail(p, U, sequential) ==
  \E r \in {x \in U : x.view = "event_detail"} :
    /\ IF r.event_id \notin 1..Len(events)
       THEN Receive(p, r, sequential, Done(Response(404, "not-found")))
       ELSE LET event == events[r.event_id]
                same_cid == IF Falsy(event.cid) THEN {}
                            ELSE {i \in 1..Len(events) : events[i].cid = event.cid}
                same_ip == IF Falsy(event.ip_address) THEN {}
                           ELSE {i \in 1..Len(events) : events[i].ip_address = event.ip_address}
            IN \E related_by_cid \in IF Falsy(event.cid) THEN {<<>>}
                                      ELSE Related(events, same_cid, event.id),
                  related_by_ip \in IF Falsy(event.ip_address) THEN {<<>>}
                                     ELSE Related(events, same_ip, event.id) :
                 Receive(p, r, sequential,
                         Done([Response(200, "dashboard/event_detail.html") EXCEPT
                                 !.related_by_cid = related_by_cid,
                                 !.related_by_ip = related_by_ip]))
    /\ UNCHANGED <<documents, nextDocId, events>>

(***************************************************************************)
(* tracker/views/dashboard.py: index.                                      *)
(***************************************************************************)
\* AccessLog.objects.exclude(country='').values('country').annotate(count=Count('id'))
CountryGroups(evs) ==
  { [country |-> c, count |-> Cardinality({i \in 1..Len(evs) : evs[i].country = c})] :
      c \in {evs[i].country : i \in 1..Len(evs)} \ {""} }

\* AccessLog.objects.exclude(client_app='').values('client_app').annotate(count=Count('id'))
ClientGroups(evs) ==
  { [client_app |-> c, count |-> Cardinality({i \in 1..Len(evs) : evs[i].client_app = c})] :
      c \in {evs[i].client_app : i \in 1..Len(evs)} \ {""} }

\* AccessLog.objects.exclude(isp='').values('isp').annotate(count=Count('id'))
IspGroups(evs) ==
  { [isp |-> c, count |-> Cardinality({i \in 1..Len(evs) : evs[i].isp = c})] :
      c \in {evs[i].isp : i \in 1..Len(evs)} \ {""} }

\* The [:5] of top_isps.
IspLimit == 5

\* `word in client` for the words the device classification looks for and
\* the client applications the table can hold.
Mentions(client, word) ==
  CASE word = "Office" -> client \in {"Microsoft Office Outlook 16", "Microsoft Office Word 2014",
                                      "Microsoft Office 2021"}
    [] word = "Word" -> client \in {"Microsoft Word", "Microsoft Office Word 2014"}
    [] word = "Excel" -> client = "Microsoft Excel"
    [] OTHER -> FALSE

mobile_keywords == {"Android", "iPhone", "iPad", "Mobile"}

\* The mobile test made before the office test.
DeviceCategory_MobileFirst(ua_str, client) ==
  IF \E k \in mobile_keywords : In(k, ua_str) THEN "mobile"
  ELSE IF Mentions(client, "Office") \/ Mentions(client, "Word") \/ Mentions(client, "Excel")
  THEN "office"
  ELSE "desktop"

\* The if / elif / else of the loop body.
DeviceCategory(ua_str, client) ==
  IF Mentions(client, "Office") \/ Mentions(client, "Word") \/ Mentions(client, "Excel")
  THEN "office"
  ELSE IF \E k \in mobile_keywords : In(k, ua_str) THEN "mobile"
  ELSE "desktop"

\* for ua in all_uas: device_stats[...] += 1, from row i on.
RECURSIVE DeviceStats(_, _, _)
DeviceStats(evs, i, device_stats) ==
  IF i > Len(evs) THEN device_stats
  ELSE DeviceStats(evs, i + 1,
                   [device_stats EXCEPT
                      ![DeviceCategory(evs[i].user_agent, evs[i].client_app)] = @ + 1])

\* The view: the rollups and the device statistics of its context.  Its
\* queries are made on one table: requests are served one after the other.
index(p, U, sequential) ==
  \E r \in {x \in U : x.view = "index"},
     events_by_endpoint \in OrderedTop(EndpointGroups(events), TopLimit),
     events_by_country \in OrderedTop(CountryGroups(events), TopLimit),
     events_by_client \in OrderedTop(ClientGroups(events), TopLimit),
     top_isps \in OrderedTop(IspGroups(events), IspLimit) :
    /\ Receive(p, r, sequential,
               Done([Response(200, "dashboard/index.html") EXCEPT
                       !.groups = events_by_endpoint,
                       !.events_by_country = events_by_country,
                       !.events_by_client = events_by_client,
                       !.top_isps = top_isps,
                       !.device_stats = DeviceStats(events, 1, NoDeviceStats)]))
    /\ UNCHANGED <<documents, nextDocId, events>>

(***************************************************************************)
(* The requests of each specification.                                     *)
(***************************************************************************)
Empty == [t |-> "empty"]
Malformed == [t |-> "malformed"]

\* A GET of a decoy view with ?cid=, ?c= or ?resource_id=.
GetRequest(view, cid, c, resource_id) ==
  Request(view, cid, c, resource_id, UA_Chrome, Empty)

\* A POST to a telemetry view.
TelemetryRequest(view, cid, ua, body) == Request(view, cid, None, None, ua, body)

\* A POST to create_document.
Registration(body) == Request("create_document", None, None, None, <<>>, body)

\* Ingestion through every decoy view, one request after the other.
SeqRequests ==
  { GetRequest(v, "a", None, None) : v \in AlwaysLogViews }
  \cup { GetRequest("ping", None, None, None), GetRequest("ping", None, "b", None),
         GetRequest("ready", "", "b", None) }
  \cup { TelemetryRequest(v, "a", UA_Chrome, Payload("Acme Reader", None)) : v \in TelemetryViews }
  \cup { TelemetryRequest("metrics", None, UA_Chrome, b) : b \in {Malformed, Scalar, Array(<<>>)} }
  \cup { GetRequest(v, None, None, "a") : v \in AssetViews }
  \cup { GetRequest("media_asset", None, None, None), GetRequest("font_file", None, None, "b") }
  \cup { Registration(RegItem("a", "report", None)) }
  \cup { GetRequest("beacon", None, None, rid) : rid \in {None, "a"} }

\* Telemetry with every combination of fingerprint and payload.
UserAgents == {UA_Chrome, UA_Word, UA_WordNoBuild}
MergeRequests ==
  { TelemetryRequest("client_info", None, ua, Payload(c, b)) :
      ua \in UserAgents, c \in {None, "", "Acme Reader"}, b \in {None, "7.1"} }

\* Registration: not JSON, one item, or a list of up to MaxBatch items; an
\* item is an object with or without the keys, or no object.
RegItems ==
  { RegItem(None, "report", None), RegItem("", None, None),
    RegItem("a", "report", None), RegItem("a", "draft", "/tmp/a.docx"),
    RegItem("b", None, "/tmp/b.docx"), Scalar }
RegLists == UNION { [1..n -> RegItems] : n \in 0..MaxBatch }
RegRequests ==
  { Registration(b) : b \in {Malformed} \cup RegItems \cup {Array(l) : l \in RegLists} }

\* Overlapping requests for one cid: ingestion, registration, a rollup.
ConcRequests ==
  { GetRequest("ping", "a", None, None),
    GetRequest("media_asset", None, None, "a"),
    TelemetryRequest("client_info", "a", UA_Chrome, Payload("Acme Reader", None)),
    Registration(RegItem("a", "report", None)),
    Registration(Array(<<RegItem("b", "draft", None), RegItem("a", "draft", None)>>)),
    Request("api_events_by_endpoint", None, None, None, <<>>, Empty) }

\* An asset request beside registration, other ingestion and the admin.
AdminRequests ==
  { GetRequest("media_asset", None, None, "a"),
    GetRequest("ping", "a", None, None),
    Registration(RegItem("a", "report", None)) }

(***************************************************************************)
(* The specifications.                                                     *)
(***************************************************************************)
\* The tasks interleaved at their database operations.
Next ==
  \E p \in Procs :
    \/ health(p, ConcRequests, FALSE)
    \/ telemetry(p, ConcRequests, FALSE)
    \/ asset(p, ConcRequests, FALSE)
    \/ create_document(p, ConcRequests, FALSE)
    \/ api_events_by_endpoint(p, ConcRequests, FALSE)
    \/ gate(p)
    \/ goc_get(p)
    \/ goc_create(p)
    \/ goc_reget(p)
    \/ uoc_save(p)
    \/ la_exists(p)
    \/ la_create(p)
    \/ lt_save(p)

Spec == Init /\ [][Next]_vars

\* Ingestion, one request after the other.
NextSeq ==
  \E p \in Procs :
    \/ health(p, SeqRequests, TRUE)
    \/ config(p, SeqRequests, TRUE)
    \/ telemetry(p, SeqRequests, TRUE)
    \/ asset(p, SeqRequests, TRUE)
    \/ create_document(p, SeqRequests, TRUE)
    \/ beacon(p, SeqRequests, TRUE)
    \/ beacon_exists(p)
    \/ gate(p)
    \/ goc_get(p)
    \/ goc_create(p)
    \/ uoc_save(p)
    \/ la_exists(p)
    \/ la_create(p)
    \/ lt_save(p)

SpecSeq == Init /\ [][NextSeq]_vars

\* Telemetry, one request after the other.
NextMerge ==
  \E p \in Procs :
    \/ telemetry(p, MergeRequests, TRUE)
    \/ la_create(p)
    \/ lt_save(p)

SpecMerge == Init /\ [][NextMerge]_vars

\* Registration, one request after the other.
NextReg ==
  \E p \in Procs :
    \/ create_document(p, RegRequests, TRUE)
    \/ goc_get(p)
    \/ goc_create(p)
    \/ uoc_save(p)

SpecReg == Init /\ [][NextReg]_vars

\* Overlapping requests while the administrator deletes Documents.
NextAdmin ==
  \/ \E p \in Procs :
       \/ health(p, AdminRequests, FALSE)
       \/ asset(p, AdminRequests, FALSE)
       \/ create_document(p, AdminRequests, FALSE)
       \/ gate(p)
       \/ goc_get(p)
       \/ goc_create(p)
       \/ goc_reget(p)
       \/ uoc_save(p)
       \/ la_exists(p)
       \/ la_create(p)
  \/ admin_delete

SpecAdmin == Init /\ [][NextAdmin]_vars

\* Fingerprinting: a request with any User-Agent of up to MaxUALen tokens is
\* in the hands of task t1, whose handler then runs.
UAStrings == UNION { [1..n -> Tokens] : n \in 0..MaxUALen }

InitUA ==
  /\ documents = {}
  /\ nextDocId = 1
  /\ events = <<>>
  /\ pc = [p \in Procs |-> IF p = "t1" THEN "dispatch" ELSE "idle"]
  /\ \E ua \in UAStrings :
       req = [p \in Procs |->
                IF p = "t1"
                THEN [Request("ping", None, None, None, ua, Empty) EXCEPT !.n = 1]
                ELSE NoRequest]
  /\ loc = [p \in Procs |-> NoLocals]
  /\ resp = [p \in Procs |-> NoResponse]
  /\ started = 1
  /\ completed = [v \in Views |-> 0]
  /\ before = [p \in Procs |-> NoBefore]

\* The handler of the request in hand starts: ping calls log_access.
dispatch(p) ==
  /\ pc[p] = "dispatch"
  /\ Become(p, req[p].view,
            log_access(req[p], Endpoint(req[p].view), Get(req[p].cid, Get(req[p].c, None))))
  /\ UNCHANGED <<documents, nextDocId, events>>

NextUA ==
  \E p \in Procs :
    \/ dispatch(p)
    \/ la_create(p)

SpecUA == InitUA /\ [][NextUA]_vars

\* The dashboard over a table that earlier ingestion and the seed_data
\* command (which sets timestamps of its own) have filled: no row, a few, or
\* MaxSeed rows, whose cids, addresses, endpoints and timestamps follow
\* repeating patterns.
SeedSizes == {0, 1, 3, MaxSeed}
Cycle(pattern, i) == pattern[((i - 1) % Len(pattern)) + 1]

SeedCids == { <<"a">>, <<"a", "b">>, <<"a", "", "b">> }
SeedAddresses == { <<"10.0.0.42">>, <<"10.0.0.42", "10.0.0.42", "192.168.1.5">>,
                   <<None, "10.0.0.42">> }
SeedEndpoints ==
  { <<"/assets/media/logo.png">>,
    <<"/assets/media/logo.png", "/health/ping", "/assets/media/logo.png",
      "/status/ready", "/assets/media/logo.png", "/health/ping">> }
\* Timestamps rising with the id, falling with it, or rising with the two
\* oldest rows equal.
SeedClocks == {"rising", "falling", "tie"}
SeedTimestamp(clock, i) ==
  CASE clock = "rising" -> i
    [] clock = "falling" -> 100 - i
    [] clock = "tie" -> IF i = 1 THEN 2 ELSE i

\* The Document rows of the cids of a pattern, in order of first use.
SeedDocId(cids, cid) == CHOOSE k \in 1..Len(cids) : cids[k] = cid /\ \A j \in 1..(k - 1) : cids[j] # cid
SeedDocuments(cids, n) ==
  { [NoDocument EXCEPT !.id = SeedDocId(cids, cids[k]), !.cid = cids[k]] :
      k \in {j \in 1..Len(cids) : j <= n /\ cids[j] # ""} }

SeedEvents(n, cids, addresses, endpoints, clock) ==
  [i \in 1..n |->
     [NoEvent EXCEPT
        !.id = i,
        !.cid = Cycle(cids, i),
        !.document = IF Cycle(cids, i) = "" THEN NULL ELSE SeedDocId(cids, Cycle(cids, i)),
        !.is_first_access = Cycle(cids, i) # "" /\ i <= Len(cids),
        !.ip_address = Cycle(addresses, i),
        !.endpoint = Cycle(endpoints, i),
        !.timestamp = SeedTimestamp(clock, i)]]

InitDash ==
  /\ \E n \in SeedSizes, cids \in SeedCids, addresses \in SeedAddresses,
        endpoints \in SeedEndpoints, clock \in SeedClocks :
       /\ events = SeedEvents(n, cids, addresses, endpoints, clock)
       /\ documents = SeedDocuments(cids, n)
       /\ nextDocId = Len(cids) + 1
  /\ pc = [p \in Procs |-> "idle"]
  /\ req = [p \in Procs |-> NoRequest]
  /\ loc = [p \in Procs |-> NoLocals]
  /\ resp = [p \in Procs |-> NoResponse]
  /\ started = 0
  /\ completed = [v \in Views |-> 0]
  /\ before = [p \in Procs |-> NoBefore]

\* The event page of the oldest rows, of the last seeded row and of the row
\* after it, the endpoint rollup, and one more ingestion.
DashRequests ==
  { [Request("event_detail", None, None, None, <<>>, Empty) EXCEPT !.event_id = id] :
      id \in {1, 2, MaxSeed, MaxSeed + 1} }
  \cup { Request("api_events_by_endpoint", None, None, None, <<>>, Empty) }
  \cup { [GetRequest("ping", "a", None, None) EXCEPT !.remote_addr = "192.168.1.5"] }

NextDash ==
  \E p \in Procs :
    \/ event_detail(p, DashRequests, TRUE)
    \/ api_events_by_endpoint(p, DashRequests, TRUE)
    \/ health(p, DashRequests, TRUE)
    \/ goc_get(p)
    \/ goc_create(p)
    \/ la_exists(p)
    \/ la_create(p)

SpecDash == InitDash /\ [][NextDash]_vars

\* The overview over a table the seed_data command has filled with up to
\* MaxSeed rows, all of one Document: the countries, ISPs and clients of its
\* scenarios, in a fixed order (the command draws them at random).
SeedCountries ==
  << "United States", "United Kingdom", "United States", "Singapore",
     "United States", "Germany", "United States", "United Kingdom",
     "United States", "Singapore", "United States", "United Kingdom" >>
SeedIsps ==
  << "Comcast Cable", "Comcast Cable", "Verizon Fios", "Comcast Cable",
     "Verizon Fios", "Singtel", "Comcast Cable", "Verizon Fios",
     "Singtel", "BT", "Jio", "Vivo" >>
SeedOffice == [client |-> "Microsoft Office 2021", os |-> <<"Windows", "10">>, first |-> "Microsoft"]
SeedChrome == [client |-> "Chrome 120.0", os |-> <<"macOS", "">>, first |-> "Chrome"]
SeedMobile == [client |-> "Chrome Mobile", os |-> <<"Android", "">>, first |-> "Chrome"]
SeedWord == [client |-> "Microsoft Word", os |-> <<"macOS", "">>, first |-> "Microsoft"]
SeedClients ==
  << SeedOffice, SeedOffice, SeedChrome, SeedOffice, SeedChrome, SeedMobile,
     SeedOffice, SeedChrome, SeedMobile, SeedOffice, SeedChrome, SeedWord >>

\* _create_log: the row of the i-th call.
SeedLog(doc, i) ==
  [NoEvent EXCEPT
     !.id = i,
     !.document = doc.id,
     !.cid = doc.cid,
     !.timestamp = i,
     !.ip_address = "10.0.0.42",
     !.country = Cycle(SeedCountries, i),
     !.isp = Cycle(SeedIsps, i),
     !.client_app = Cycle(SeedClients, i).client,
     !.os_name = Cycle(SeedClients, i).os[1],
     !.os_version = Cycle(SeedClients, i).os[2],
     !.browser_name = Cycle(SeedClients, i).first,
     !.endpoint = "/assets/media/logo.png",
     !.is_first_access = (i = 1)]

SeedDocument == [NoDocument EXCEPT !.id = 1, !.cid = "a", !.name = "report"]

InitIndex ==
  /\ \E n \in {0, 3, MaxSeed} :
       /\ events = [i \in 1..n |-> SeedLog(SeedDocument, i)]
       /\ documents = IF n = 0 THEN {} ELSE {SeedDocument}
       /\ nextDocId = IF n = 0 THEN 1 ELSE 2
  /\ pc = [p \in Procs |-> "idle"]
  /\ req = [p \in Procs |-> NoRequest]
  /\ loc = [p \in Procs |-> NoLocals]
  /\ resp = [p \in Procs |-> NoResponse]
  /\ started = 0
  /\ completed = [v \in Views |-> 0]
  /\ before = [p \in Procs |-> NoBefore]

\* The overview, and ingestion from a desktop browser, a phone, Word on a
\* phone and Excel.
UA_Phone == <<"Mozilla/5.0", "Linux x86_64", "Android 13", "Chrome/120.0", "Mobile", "Safari/605.1">>
UA_WordOnPhone == <<"Mozilla/5.0", "Android 13", "Word/16.0", "Mobile">>
UA_Excel == <<"Mozilla/5.0", "Windows NT 10.0", "Excel/15.0">>
IndexRequests ==
  { Request("index", None, None, None, UA_Chrome, Empty) }
  \cup { Request("ping", "a", None, None, ua, Empty) :
           ua \in {UA_Chrome, UA_Phone, UA_WordOnPhone, UA_Excel} }

NextIndex ==
  \E p \in Procs :
    \/ index(p, IndexRequests, TRUE)
    \/ health(p, IndexRequests, TRUE)
    \/ goc_get(p)
    \/ goc_create(p)
    \/ la_exists(p)
    \/ la_create(p)

SpecIndex == InitIndex /\ [][NextIndex]_vars

(***************************************************************************)
(* The properties.                                                         *)
(***************************************************************************)
\* The events recorded for cid c, as indices into the table.
EventsOf(c) == {i \in 1..Len(events) : events[i].cid = c}

\* C1.  When the requests are served one after the other, an event with a
\* non-empty cid has is_first_access set exactly when no event recorded
\* before it carries the same cid, whichever endpoints the events came from.
C1_FirstAccessSequential ==
  \A i \in 1..Len(events) :
    events[i].cid # "" =>
      (events[i].is_first_access <=> \A j \in 1..(i - 1) : events[j].cid # events[i].cid)

\* Two events for one cid from different endpoints, the first flagged and
\* the second not.
C1_Witness ==
  \E i, j \in 1..Len(events) :
    /\ i < j
    /\ events[i].cid # "" /\ events[i].cid = events[j].cid
    /\ events[i].endpoint # events[j].endpoint
    /\ events[i].is_first_access /\ ~events[j].is_first_access

\* C2.  Under every interleaving of the requests, at most one event of a cid
\* has is_first_access set.
C2_AtMostOneFirstAccess ==
  \A c \in CIDS : Cardinality({i \in EventsOf(c) : events[i].is_first_access}) <= 1

\* C3.  The Document table never holds two rows with one cid, whatever the
\* interleaving of get_or_create (ingestion) and update_or_create
\* (registration), and the row a task resolved for a cid is that row.
C3_OneDocumentPerCid ==
  /\ \A d1, d2 \in documents : d1.cid = d2.cid => d1 = d2
  /\ \A p \in Procs :
       loc[p].document # NoDocument =>
         \E d \in documents : d.id = loc[p].document.id /\ d.cid = loc[p].cid

\* One task's INSERT hit the unique constraint (it is about to read again)
\* while another task, in another view, holds the row it resolved for that cid.
C3_Witness ==
  \E p, q \in Procs :
    /\ pc[q] = "goc_reget"
    /\ req[q].view = "create_document"
    /\ req[p].view \in DecoyViews
    /\ loc[p].document # NoDocument /\ loc[p].cid = loc[q].cid
    /\ DocumentsByCid(loc[q].cid) = {loc[p].document}

\* Task p answers a request in this step.
Answers(p) == pc'[p] = "idle" /\ (pc[p] # "idle" \/ req'[p].n # req[p].n)

\* The cids of a Document table.
Cids(docs) == {d.cid : d \in docs}

\* The elements of a sequence.
Range(seq) == {seq[i] : i \in 1..Len(seq)}

\* C4.  A registration that repeats the one the task answered with 200 just
\* before (same body, so same identifiers, names and paths) leaves the
\* Document table as the first left it, with one row per identifier, and
\* returns what the first returned.
C4_RegistrationIdempotent ==
  [][\A p \in Procs :
       (/\ pc[p] # "idle" /\ pc'[p] = "idle"
        /\ req[p].view = "create_document"
        /\ before[p].repeat)
       => /\ documents' = before[p].documents
          /\ resp'[p] = before[p].resp
          /\ \A c \in Range(resp'[p].ids) :
               Cardinality({d \in documents' : d.cid = c}) = 1]_vars

\* A repeated registration has been answered: it returned an identifier and
\* the row of that identifier carries the name it registered.
C4_Witness ==
  \E p \in Procs :
    /\ pc[p] = "idle" /\ before[p].repeat
    /\ req[p].view = "create_document"
    /\ resp[p].status = 200 /\ resp[p].ids # <<>>
    /\ \E d \in documents : d.cid = resp[p].ids[1] /\ d.name = "report"

\* A body that is a list of objects.
IsBatchOfObjects(body) ==
  body.t = "array" /\ \A i \in 1..Len(body.items) : IsObject(body.items[i])

\* The identifiers of the items that carry a non-empty one, in batch order.
CarriesId(item) == item.uuid # None /\ item.uuid # ""
IdsCarried(items) ==
  LET carrying == SelectSeq(items, CarriesId)
  IN [i \in 1..Len(carrying) |-> carrying[i].uuid]

\* C5.  A list of objects of which at least one carries a non-empty
\* identifier is answered 200 with exactly the identifiers carried, in batch
\* order; afterwards the table holds one row for each of them and no row it
\* did not hold before for anything else.
C5_BatchRegistration ==
  [][\A p \in Procs :
       (/\ pc[p] # "idle" /\ pc'[p] = "idle"
        /\ req[p].view = "create_document"
        /\ IsBatchOfObjects(req[p].body)
        /\ IdsCarried(req[p].body.items) # <<>>)
       => /\ resp'[p].status = 200
          /\ resp'[p].body = "resource_ids"
          /\ resp'[p].ids = IdsCarried(req[p].body.items)
          /\ Cids(documents') = Cids(before[p].documents) \cup Range(resp'[p].ids)
          /\ Cardinality(documents') = Cardinality(Cids(documents'))]_vars

\* A list of two objects, the first without identifier, answered with the
\* identifier of the second, whose row exists.
C5_Witness ==
  \E p \in Procs :
    /\ pc[p] = "idle" /\ req[p].view = "create_document"
    /\ IsBatchOfObjects(req[p].body) /\ Len(req[p].body.items) = 2
    /\ ~CarriesId(req[p].body.items[1])
    /\ resp[p].status = 200 /\ resp[p].ids = <<req[p].body.items[2].uuid>>
    /\ Cids(documents) = {req[p].body.items[2].uuid}

ValidationError == Response(400, "uuid is required for at least one item")

\* The body is JSON, an object or a list of objects, and no item carries a
\* non-empty identifier.
ZeroValidItems(body) ==
  /\ body.t \in {"object", "array"}
  /\ \A i \in 1..Len(Items(body)) : IsObject(Items(body)[i]) /\ ~CarriesId(Items(body)[i])

\* Some item of the body is an object carrying a non-empty identifier.
SomeValidItem(body) ==
  /\ body.t \in {"object", "array"}
  /\ \E i \in 1..Len(Items(body)) : IsObject(Items(body)[i]) /\ CarriesId(Items(body)[i])

\* C6, as claimed.  A registration yielding zero valid items is answered with
\* the validation error and leaves the Document table unchanged; one yielding
\* a valid item is never answered with that error.
C6_ZeroValidItemsRejected ==
  [][\A p \in Procs :
       (Answers(p) /\ req'[p].view = "create_document")
       => /\ ZeroValidItems(req'[p].body) =>
               resp'[p] = ValidationError /\ documents' = documents
          /\ SomeValidItem(req'[p].body) => resp'[p] # ValidationError]_vars

\* C6, amended.  A registration with at least one item, every item an object
\* without a non-empty identifier, is answered with the validation error and
\* leaves the Document table unchanged; one yielding a valid item is never
\* answered with that error.
C6_AllSkippedRejected ==
  [][\A p \in Procs :
       (Answers(p) /\ req'[p].view = "create_document")
       => /\ (ZeroValidItems(req'[p].body) /\ Items(req'[p].body) # <<>>) =>
               resp'[p] = ValidationError /\ documents' = documents
          /\ SomeValidItem(req'[p].body) => resp'[p] # ValidationError]_vars

\* A list of two objects without identifier has been answered with the
\* validation error, the table holding what an earlier registration left.
C6_Witness ==
  \E p \in Procs :
    /\ pc[p] = "idle" /\ req[p].view = "create_document"
    /\ req[p].body.t = "array" /\ Len(req[p].body.items) = 2
    /\ ZeroValidItems(req[p].body)
    /\ resp[p] = ValidationError
    /\ documents # {}

\* What the late merge leaves in a field: the extracted value when there is
\* one, else the payload's value when it is non-empty.
Merged(extracted, supplied) ==
  IF extracted # "" THEN extracted
  ELSE IF supplied = None \/ supplied = "" THEN "" ELSE supplied

\* C7.  The event of an answered telemetry request has the client_app the
\* fingerprint extractor produced when that is non-empty, and the payload's
\* 'client' only when the extracted one is empty and the payload's is not;
\* likewise client_build and 'build'.
C7_LateMerge ==
  \A p \in Procs :
    (pc[p] = "idle" /\ req[p].view \in TelemetryViews /\ resp[p].status = 200)
    => LET fp == parse_user_agent(req[p].ua)
           payload == TelemetryPayload(req[p].body)
           e == events[Len(events)]
       IN /\ e.client_app = Merged(fp.client_app, payload.client)
          /\ e.client_build = Merged(fp.client_build, payload.build)

\* A request whose User-Agent names Word without a version and whose payload
\* carries both keys: the application is kept, the build is taken.
C7_Witness ==
  \E p \in Procs :
    /\ pc[p] = "idle" /\ req[p].ua = UA_WordNoBuild
    /\ req[p].body = Payload("Acme Reader", "7.1")
    /\ events[Len(events)].client_app = "Microsoft Word"
    /\ events[Len(events)].client_build = "7.1"

\* C8.  No step removes a stored event, and a step changes a stored event
\* only when it is the save of the log_telemetry call that created the event
\* and it changes nothing but client_app and client_build.
C8_EventsImmutable ==
  [][\A i \in 1..Len(events) :
       /\ i <= Len(events')
       /\ \/ events'[i] = events[i]
          \/ \E p \in Procs :
               /\ pc[p] = "lt_save" /\ pc'[p] = "idle"
               /\ loc[p].access_log.id = i
               /\ events'[i] = [events[i] EXCEPT !.client_app = events'[i].client_app,
                                                 !.client_build = events'[i].client_build]]_vars

\* A merged telemetry event beside another event of the same cid, after a
\* registration of that cid.
C8_Witness ==
  \E i, j \in 1..Len(events) :
    /\ i # j /\ events[i].cid = events[j].cid
    /\ events[i].client_app = "Acme Reader"
    /\ events[j].client_app = ""
    /\ completed["create_document"] > 0

\* C9.  Every answered request to a decoy view got the view's canned
\* success response.
C9_DecoyNeverFails ==
  \A p \in Procs :
    (pc[p] = "idle" /\ req[p].view \in DecoyViews)
    => resp[p] = Response(200, Canned(req[p].view))

\* C10.  When no request is in hand, the events carrying the label of a
\* health, prefetch, config or telemetry view are as many as the requests
\* that view has answered.
C10_OneEventPerRequest ==
  (\A p \in Procs : pc[p] = "idle")
  => \A v \in AlwaysLogViews \cup TelemetryViews :
       Cardinality({i \in 1..Len(events) : events[i].endpoint = Endpoint(v)}) = completed[v]

\* Some client application rule (Office, Word, Excel) matches the User-Agent.
AppDetected(ua) ==
  \E i \in 1..Len(ua) :
    OfficeGroup(ua[i]) # None \/ WordMatches(ua[i]) \/ ExcelMatches(ua[i])

\* C15.  No stored fingerprint has both client_app and browser_name
\* non-empty, and when a client application rule matches the User-Agent the
\* browser fields are empty whatever browser tokens it contains.
C15_AppExcludesBrowser ==
  \A i \in 1..Len(events) :
    /\ ~(events[i].client_app # "" /\ events[i].browser_name # "")
    /\ AppDetected(events[i].user_agent)
         => events[i].browser_name = "" /\ events[i].browser_version = ""

\* A User-Agent naming a client application and Chrome has been fingerprinted.
C15_Witness ==
  \E i \in 1..Len(events) :
    /\ events[i].client_app # ""
    /\ In("Chrome", events[i].user_agent)
    /\ events[i].browser_name = ""

\* C16, as claimed.  Every User-Agent with a Chrome token and an Edg token
\* is classified as Edge.
C16_EdgeOverChrome ==
  \A i \in 1..Len(events) :
    (In("Chrome", events[i].user_agent) /\ In("Edg", events[i].user_agent))
    => events[i].browser_name = "Edge"

\* C16, amended.  A User-Agent with a Chrome token and an Edg token is never
\* classified as Chrome, and is classified as Edge when no client
\* application rule matches it.
C16_EdgeOverChromeUnlessApp ==
  \A i \in 1..Len(events) :
    (In("Chrome", events[i].user_agent) /\ In("Edg", events[i].user_agent))
    => /\ events[i].browser_name # "Chrome"
       /\ ~AppDetected(events[i].user_agent)
            => events[i].browser_name = "Edge" /\ events[i].browser_version = "120.0"

\* The Chrome token before the Edg token, classified as Edge.
C16_Witness ==
  \E i \in 1..Len(events) :
    /\ \E j, k \in 1..Len(events[i].user_agent) :
         /\ j < k
         /\ Contains(events[i].user_agent[j], "Chrome")
         /\ Contains(events[i].user_agent[k], "Edg")
    /\ events[i].browser_name = "Edge"

\* The leftmost token a client application rule matches, per rule.
FirstOffice(ua) == CHOOSE i \in 1..Len(ua) :
                     OfficeGroup(ua[i]) # None /\ \A j \in 1..(i - 1) : OfficeGroup(ua[j]) = None
FirstWord(ua) == CHOOSE i \in 1..Len(ua) :
                   WordMatches(ua[i]) /\ \A j \in 1..(i - 1) : ~WordMatches(ua[j])
FirstExcel(ua) == CHOOSE i \in 1..Len(ua) :
                    ExcelMatches(ua[i]) /\ \A j \in 1..(i - 1) : ~ExcelMatches(ua[j])

\* The client application and build of the earliest matching rule, in the
\* order Office variant, Word, Excel.
FirstMatchApp(ua) ==
  IF \E i \in 1..Len(ua) : OfficeGroup(ua[i]) # None
  THEN [client_app |-> OfficeApp(ua[FirstOffice(ua)]), client_build |-> ""]
  ELSE IF \E i \in 1..Len(ua) : WordMatches(ua[i])
  THEN [client_app |-> "Microsoft Word",
        client_build |-> IF WordGroup(ua[FirstWord(ua)]) = None THEN ""
                         ELSE WordGroup(ua[FirstWord(ua)])]
  ELSE IF \E i \in 1..Len(ua) : ExcelMatches(ua[i])
  THEN [client_app |-> "Microsoft Excel",
        client_build |-> IF ExcelGroup(ua[FirstExcel(ua)]) = None THEN ""
                         ELSE ExcelGroup(ua[FirstExcel(ua)])]
  ELSE [client_app |-> "", client_build |-> ""]

\* C19.  client_app and client_build are those of the earliest matching
\* rule in the order Office variant, Word, Excel.
C19_FirstMatchWins ==
  \A i \in 1..Len(events) :
    /\ events[i].client_app = FirstMatchApp(events[i].user_agent).client_app
    /\ events[i].client_build = FirstMatchApp(events[i].user_agent).client_build

\* The OS rule table in the order of the code: the markers of which one must
\* occur, the name, and the version (a constant, or the pattern whose
\* capture it is; "" for none).
OSRules ==
  << [markers |-> {"Windows NT 10"}, os_name |-> "Windows", constant |-> "10/11", pattern |-> ""],
     [markers |-> {"Windows NT 6.3"}, os_name |-> "Windows", constant |-> "8.1", pattern |-> ""],
     [markers |-> {"Windows NT 6.1"}, os_name |-> "Windows", constant |-> "7", pattern |-> ""],
     [markers |-> {"Mac OS X"}, os_name |-> "macOS", constant |-> "", pattern |-> "Mac OS X ([\\d_]+)"],
     [markers |-> {"Linux"}, os_name |-> "Linux", constant |-> "", pattern |-> ""],
     [markers |-> {"Android"}, os_name |-> "Android", constant |-> "", pattern |-> "Android ([\\d.]+)"],
     [markers |-> {"iPhone", "iPad"}, os_name |-> "iOS", constant |-> "", pattern |-> "OS ([\\d_]+)"] >>

\* The rules of the table a User-Agent matches.
OSMatches(ua) == {k \in 1..Len(OSRules) : \E m \in OSRules[k].markers : In(m, ua)}

\* The OS fields the first matching rule of the table gives.
FirstOSRule(ua) ==
  IF OSMatches(ua) = {} THEN [os_name |-> "", os_version |-> ""]
  ELSE LET k == CHOOSE x \in OSMatches(ua) : \A y \in OSMatches(ua) : x <= y
       IN [os_name |-> OSRules[k].os_name,
           os_version |-> IF OSRules[k].pattern = "" THEN OSRules[k].constant
                          ELSE Search(OSRules[k].pattern, ua)]

\* C20.  os_name and os_version are those of the first rule of the table
\* the User-Agent matches, empty when it matches none, whatever client
\* application or browser was detected.
C20_FirstOSRule ==
  \A i \in 1..Len(events) :
    /\ events[i].os_name = FirstOSRule(events[i].user_agent).os_name
    /\ events[i].os_version = FirstOSRule(events[i].user_agent).os_version

\* A User-Agent matching the Linux and the Android rule and naming a client
\* application, fingerprinted as Linux; and one matching no rule.
C20_Witness ==
  \E i \in 1..Len(events) :
    /\ In("Linux", events[i].user_agent) /\ In("Android", events[i].user_agent)
    /\ events[i].client_app # ""
    /\ events[i].os_name = "Linux" /\ events[i].os_version = ""

\* The tables as the request task p answers in this step found them.
DocumentsFound(p) == IF pc[p] = "idle" THEN documents ELSE before[p].documents
EventsFound(p) == IF pc[p] = "idle" THEN events ELSE before[p].events

Usable(value) == value # None /\ value # ""

\* The cid the request should be recorded with: the explicit argument of an
\* asset, font or theme view, else 'cid', else the legacy 'c', else empty.
ResolvedCid(r) ==
  IF r.view \in AssetViews /\ Usable(r.resource_id) THEN r.resource_id
  ELSE IF Usable(r.cid) THEN r.cid
  ELSE IF Usable(r.c) THEN r.c
  ELSE ""

\* C12.  The event log_access stores for a request carries the explicit cid
\* argument when that is non-empty, else the 'cid' query parameter when it
\* yields an identifier, else the 'c' query parameter, else the empty cid.
C12_EffectiveCid ==
  [][\A p \in Procs :
       (pc[p] = "la_create" /\ pc'[p] # "la_create")
       => /\ Len(events') = Len(events) + 1
          /\ events'[Len(events')].cid = ResolvedCid(req[p])]_vars

\* C13.  A beacon request that is not rejected has its event persisted: the
\* timestamp override it hands to log_access does not make ingestion raise.
C13_TimestampOverride ==
  \A p \in Procs :
    (pc[p] = "idle" /\ req[p].view = "beacon" /\ resp[p].status \notin {400, 404})
    => /\ resp[p].status = 200
       /\ \E i \in 1..Len(events) :
            events[i].endpoint = "/api/beacon" /\ events[i].cid = req[p].resource_id

\* C14.  A beacon request whose resource_id names a Document that existed
\* when it arrived stores one event with endpoint '/api/beacon' and that cid
\* and is answered ok; one without resource_id is answered 400 and one with
\* an unregistered resource_id 404, both leaving the tables as they were.
C14_BeaconOutcomes ==
  [][\A p \in Procs :
       (Answers(p) /\ req'[p].view = "beacon")
       => LET r == req'[p]
          IN IF ~Usable(r.resource_id)
             THEN /\ resp'[p].status = 400
                  /\ events' = EventsFound(p) /\ documents' = DocumentsFound(p)
             ELSE IF \A d \in DocumentsFound(p) : d.cid # r.resource_id
             THEN /\ resp'[p].status = 404
                  /\ events' = EventsFound(p) /\ documents' = DocumentsFound(p)
             ELSE /\ resp'[p] = Response(200, "status-ok-json")
                  /\ Len(events') = Len(EventsFound(p)) + 1
                  /\ SubSeq(events', 1, Len(EventsFound(p))) = EventsFound(p)
                  /\ events'[Len(events')].endpoint = "/api/beacon"
                  /\ events'[Len(events')].cid = r.resource_id]_vars

\* The sum of the counts of the first n groups.
RECURSIVE SumCounts(_, _)
SumCounts(groups, n) == IF n = 0 THEN 0 ELSE groups[n].count + SumCounts(groups, n - 1)

LatestOf(s, others, evs) ==
  /\ Len(s) = IF Cardinality(others) < 10 THEN Cardinality(others) ELSE 10
  /\ \A i \in 1..Len(s) : s[i] \in others
  /\ \A i, j \in 1..Len(s) : i < j => s[i] # s[j] /\ evs[s[i]].timestamp >= evs[s[j]].timestamp
  /\ \A x \in others : (\A i \in 1..Len(s) : s[i] # x) =>
                          \A i \in 1..Len(s) : evs[s[i]].timestamp >= evs[x].timestamp

\* C18.  The event page of a stored event E lists, latest first and at most
\* 10 each, the other events with E's cid (none when E's cid is empty) and,
\* independently, the other events with E's address.
C18_RelatedEvents ==
  [][\A p \in Procs :
       (Answers(p) /\ req'[p].view = "event_detail" /\ req'[p].event_id \in 1..Len(events))
       => LET E == events[req'[p].event_id]
              same_cid == {i \in 1..Len(events) :
                             i # E.id /\ E.cid # "" /\ events[i].cid = E.cid}
              same_ip == {i \in 1..Len(events) :
                            i # E.id /\ E.ip_address # None /\ events[i].ip_address = E.ip_address}
          IN /\ resp'[p].status = 200
             /\ LatestOf(resp'[p].related_by_cid, same_cid, events)
             /\ LatestOf(resp'[p].related_by_ip, same_ip, events)]_vars

\* The page of an event with more than 10 others of its cid and fewer of its
\* address, one of them in both lists.
C18_Witness ==
  \E p \in Procs :
    /\ pc[p] = "idle" /\ req[p].view = "event_detail" /\ resp[p].status = 200
    /\ Len(resp[p].related_by_cid) = 10
    /\ Cardinality({i \in 1..Len(events) : events[i].cid = events[req[p].event_id].cid}) > 11
    /\ Len(resp[p].related_by_ip) \in 1..9
    /\ \E i \in 1..10, j \in 1..Len(resp[p].related_by_ip) :
         resp[p].related_by_cid[i] = resp[p].related_by_ip[j]

\* C23.  Every stored event with an empty cid has no Document reference and
\* is_first_access false, and every stored event with a non-empty cid
\* references an existing Document with that cid; the request whose event is
\* stored with an empty cid is recorded and leaves the Document table as it
\* found it.
C23_CorrelationConsistency ==
  [][/\ \A i \in 1..Len(events') :
          IF events'[i].cid = ""
          THEN events'[i].document = NULL /\ ~events'[i].is_first_access
          ELSE \E d \in documents' : d.id = events'[i].document /\ d.cid = events'[i].cid
     /\ \A p \in Procs :
          (pc[p] = "la_create" /\ pc'[p] # "la_create" /\ ResolvedCid(req[p]) = "")
          => /\ Len(events') = Len(events) + 1
             /\ events'[Len(events')].cid = ""
             /\ documents' = before[p].documents]_vars

\* An event without cid beside an event with one, the only Document being
\* that of the latter.
C23_Witness ==
  \E i, j \in 1..Len(events) :
    /\ events[i].cid = "" /\ events[i].document = NULL
    /\ events[j].cid # "" /\ events[j].document # NULL
    /\ Cardinality(documents) = 1

\* C25.  No stored event has both a non-empty client_app and a non-empty
\* browser_name, the events the late merge has filled included.
C25_StoredAppExcludesBrowser ==
  \A i \in 1..Len(events) : events[i].client_app = "" \/ events[i].browser_name = ""

\* C26.  A registration answered with an error status leaves the Document
\* table as it found it.
C26_ErrorLeavesRegistry ==
  [][\A p \in Procs :
       (Answers(p) /\ req'[p].view = "create_document" /\ resp'[p].status \in {400, 500})
       => documents' = DocumentsFound(p)]_vars

\* C24.  No step of a request to an asset, font or theme endpoint adds a
\* Document, whatever registration, other ingestion and the admin's
\* deletions do between its steps.
C24_GatedNeverCreates ==
  [][\A p \in Procs :
       (req[p].view \in AssetViews /\ pc[p] # "idle" /\ pc'[p] # pc[p])
       => documents' \subseteq documents]_vars

\* The groups of a rollup are the n (or all, when there are fewer) largest
\* of the expected groups, largest first.
IsTop(groups, expected, n) ==
  /\ Len(groups) = Min(n, Cardinality(expected))
  /\ \A i \in 1..Len(groups) : groups[i] \in expected
  /\ \A i, j \in 1..Len(groups) : i < j => groups[i] # groups[j] /\ groups[i].count >= groups[j].count
  /\ \A g \in expected : (\A i \in 1..Len(groups) : groups[i] # g) =>
                           \A i \in 1..Len(groups) : groups[i].count >= g.count

\* The number of rows of evs whose value under key is v.
Count(evs, Key(_), v) == Cardinality({i \in 1..Len(evs) : Key(evs[i]) = v})

\* C21.  The overview's rollups by endpoint, country, client application and
\* ISP each hold the min(10, number of groups) groups with the largest
\* counts, largest first, the last three without the empty-string group.
C21_TopTenRollups ==
  [][\A p \in Procs :
       (Answers(p) /\ req'[p].view = "index")
       => LET ByEndpoint(e) == e.endpoint
              ByCountry(e) == e.country
              ByClient(e) == e.client_app
              ByIsp(e) == e.isp
              Values(Key(_)) == {Key(events[i]) : i \in 1..Len(events)}
          IN /\ IsTop(resp'[p].groups,
                      {[endpoint |-> v, count |-> Count(events, ByEndpoint, v)] :
                         v \in Values(ByEndpoint)}, 10)
             /\ IsTop(resp'[p].events_by_country,
                      {[country |-> v, count |-> Count(events, ByCountry, v)] :
                         v \in Values(ByCountry) \ {""}}, 10)
             /\ IsTop(resp'[p].events_by_client,
                      {[client_app |-> v, count |-> Count(events, ByClient, v)] :
                         v \in Values(ByClient) \ {""}}, 10)
             /\ IsTop(resp'[p].top_isps,
                      {[isp |-> v, count |-> Count(events, ByIsp, v)] :
                         v \in Values(ByIsp) \ {""}}, 10)]_vars

\* An event whose client_app holds an Office, Word or Excel marker; one whose
\* user agent holds a mobile marker.
OfficeMarked(e) ==
  e.client_app \in {"Microsoft Office Outlook 16", "Microsoft Office Word 2014",
                    "Microsoft Office 2021", "Microsoft Word", "Microsoft Excel"}
MobileMarked(e) ==
  \E i \in 1..Len(e.user_agent) : e.user_agent[i] \in {"Android 13", "iPhone", "iPad", "Mobile"}

\* C22.  The overview counts every event once: office when its client_app is
\* marked, whatever its user agent; desktop when neither client_app nor user
\* agent is marked; mobile otherwise; the three counts sum to the number of
\* events.
C22_DevicePartition ==
  [][\A p \in Procs :
       (Answers(p) /\ req'[p].view = "index")
       => LET stats == resp'[p].device_stats
              rows == 1..Len(events)
          IN /\ stats.office + stats.mobile + stats.desktop = Len(events)
             /\ stats.office = Cardinality({i \in rows : OfficeMarked(events[i])})
             /\ stats.desktop =
                  Cardinality({i \in rows : ~OfficeMarked(events[i]) /\ ~MobileMarked(events[i])})
             /\ stats.mobile =
                  Cardinality({i \in rows : ~OfficeMarked(events[i]) /\ MobileMarked(events[i])})]_vars

\* The overview of a table that holds an event of Word on a phone, an event
\* of a phone's browser and events with neither marker.
C22_Witness ==
  \E p \in Procs :
    /\ pc[p] = "idle" /\ req[p].view = "index" /\ resp[p].status = 200
    /\ \E i \in 1..Len(events) : OfficeMarked(events[i]) /\ MobileMarked(events[i])
    /\ resp[p].device_stats.mobile > 0
    /\ resp[p].device_stats.desktop > 0
    /\ resp[p].device_stats.office > 1

=============================================================================
